---- MODULE Spec2Model ----
(***************************************************************************)
(* Model of src/wasm/parse_edid_buffer.cpp: the buffer-based entry point   *)
(* of the EDID decoder.  The host writes bytes into edid_input_buffer and  *)
(* calls parse_edid_buffer(len), which resets the decoder, validates the   *)
(* declared length and the header, copies the bytes into the decoder's     *)
(* edid array and calls the parsing engine (edid_state::parse_edid).       *)
(***************************************************************************)
EXTENDS Integers, Sequences, FiniteSets, TLC

\* ---- scaled sizes (EDID_PAGE_SIZE and EDID_MAX_BLOCKS of the decoder) ----
EDID_PAGE_SIZE == 8
EDID_MAX_BLOCKS == 4

\* sizeof(edid_input_buffer)
BufferSize == EDID_PAGE_SIZE * EDID_MAX_BLOCKS

\* length of the header signature compared by memcmp
HeaderLen == 8

\* the literal "\x00\xFF\xFF\xFF\xFF\xFF\xFF\x00"
EdidHeader == [i \in 0..(HeaderLen - 1) |-> IF i = 0 \/ i = HeaderLen - 1 THEN 0 ELSE 255]

Idx == 0..(BufferSize - 1)
OptNames == {"OptCheck", "OptPreferredTimings", "OptNativeResolution", "OptSkipSHA", "OptUTF8"}
MsgBlocks == 0..EDID_MAX_BLOCKS
MsgKinds == {0, 1}

\* ---- inputs the host can supply ----
\* header variants written by the host: the signature, first byte wrong,
\* last byte wrong
HeaderVariants ==
  { EdidHeader,
    [EdidHeader EXCEPT ![0] = 1],
    [EdidHeader EXCEPT ![HeaderLen - 1] = 1] }
FillBytes == {1, 2}
WriteLens == {EDID_PAGE_SIZE, BufferSize}
\* declared lengths tried by the host
ParseLens ==
  { 0, EDID_PAGE_SIZE - 1, EDID_PAGE_SIZE, EDID_PAGE_SIZE + 1,
    EDID_PAGE_SIZE * 3 + 1, BufferSize, BufferSize + 1, 2 * BufferSize, 2^30 }
\* result codes the engine can return
EngineResults == {-2, -1, 0, 1}
\* blocks the engine may log a message for
EngineLogBlocks == {0, EDID_MAX_BLOCKS}

VARIABLES
  edid_input_buffer, \* static staging buffer
  edid,              \* decoder working copy
  s_msgs,            \* [block][kind] message logs ("" = empty)
  options,           \* option flags
  state,             \* edid_state object
  pc,                \* "idle" | "engine" | "returned"
  len,               \* argument of the latest call
  ret,               \* << value returned by the latest call >>, << >> before it returns
  stderr,            \* diagnostics printed by the latest call
  engine_calls,      \* engine invocations made by the latest call
  engine_ret,        \* << what the engine returned in the latest call >>, << >> if it did not run
  copied,            \* bytes read from the staging buffer by the latest call
  prior              \* outcomes of the calls completed so far

vars == << edid_input_buffer, edid, s_msgs, options, state, pc, len, ret,
           stderr, engine_calls, engine_ret, copied, prior >>

\* edid_state(): a freshly constructed decoder state
edid_state == [edid_size |-> 0, num_blocks |-> 0, block_nr |-> 0]

\* variant: the loop stops one block early (i < EDID_MAX_BLOCKS)
ClearMsgs_OffByOne(m) ==
  [b \in MsgBlocks |-> [k \in MsgKinds |-> IF b < EDID_MAX_BLOCKS THEN "" ELSE m[b][k]]]

\* lines 24-27: clear both logs of every block 0..EDID_MAX_BLOCKS
ClearMsgs(m) ==
  [b \in MsgBlocks |-> [k \in MsgKinds |-> IF b < EDID_MAX_BLOCKS + 1 THEN "" ELSE m[b][k]]]

\* lines 28-32: the fixed option defaults
SetOptions(o) ==
  [o EXCEPT !["OptCheck"] = 1, !["OptPreferredTimings"] = 1,
            !["OptNativeResolution"] = 1, !["OptSkipSHA"] = 0, !["OptUTF8"] = 1]

\* variant: the decoder state is not reconstructed
ResetState_Skip(s) == s

\* line 33: state = edid_state()
ResetState(s) == edid_state

\* variant: the lower bound is not checked
InvalidSize_NoLower(l) == l > BufferSize

\* variant: the upper bound is not checked
InvalidSize_NoUpper(l) == l < EDID_PAGE_SIZE

\* line 36: the size check
InvalidSize(l) == l < EDID_PAGE_SIZE \/ l > BufferSize

\* variant: only the first 7 bytes are compared
HeaderMismatch_Short(buf) == \E i \in 0..(HeaderLen - 2) : buf[i] # EdidHeader[i]

\* line 40: memcmp(edid_input_buffer, header, 8) != 0
HeaderMismatch(buf) == \E i \in 0..(HeaderLen - 1) : buf[i] # EdidHeader[i]

\* variant: the last byte is not copied
Memcpy_Short(dst, src, n) == [i \in Idx |-> IF i < n - 1 THEN src[i] ELSE dst[i]]

\* variant: the bytes beyond n are zeroed
Memcpy_ZeroTail(dst, src, n) == [i \in Idx |-> IF i < n THEN src[i] ELSE 0]

\* line 46: memcpy(edid, edid_input_buffer, len)
Memcpy(dst, src, n) == [i \in Idx |-> IF i < n THEN src[i] ELSE dst[i]]

\* variant: the block count is rounded up
RecordSize_RoundUp(s, l) ==
  [s EXCEPT !.edid_size = l, !.num_blocks = (l + EDID_PAGE_SIZE - 1) \div EDID_PAGE_SIZE]

\* lines 47-48: record the size and the block count
RecordSize(s, l) == [s EXCEPT !.edid_size = l, !.num_blocks = l \div EDID_PAGE_SIZE]

\* variant: negative engine results are mapped to -1
ReturnCode_Remap(r) == IF r < 0 THEN -1 ELSE r

\* line 50: return state.parse_edid()
ReturnCode(r) == r

Init ==
  /\ edid_input_buffer = [i \in Idx |-> 0]
  /\ edid = [i \in Idx |-> 0]
  /\ s_msgs = [b \in MsgBlocks |-> [k \in MsgKinds |-> ""]]
  /\ options = [o \in OptNames |-> 0]
  /\ state = edid_state
  /\ pc = "idle"
  /\ len = 0
  /\ ret = << >>
  /\ stderr = << >>
  /\ engine_calls = 0
  /\ engine_ret = << >>
  /\ copied = 0
  /\ prior = {}

\* the host writes data at the address returned by get_edid_buffer()
WriteStaging ==
  /\ pc # "engine"
  /\ \E h \in HeaderVariants, f \in FillBytes, n \in WriteLens :
       edid_input_buffer' =
         [i \in Idx |-> IF i >= n THEN edid_input_buffer[i]
                        ELSE IF i < HeaderLen THEN h[i] ELSE f]
  /\ pc' = "idle"
  /\ UNCHANGED << edid, s_msgs, options, state, len, ret, stderr,
                  engine_calls, engine_ret, copied, prior >>

\* parse_edid_buffer(l), up to its return or its call of the engine
parse_edid_buffer ==
  /\ pc # "engine"
  /\ \E l \in ParseLens :
       /\ len' = l
       /\ s_msgs' = ClearMsgs(s_msgs)
       /\ options' = SetOptions(options)
       /\ engine_ret' = << >>
       /\ IF InvalidSize(l)
          THEN /\ state' = ResetState(state)
               /\ stderr' = << <<"Invalid EDID size", l>> >>
               /\ prior' = prior \cup {"InvalidSize"}
               /\ ret' = << -1 >>
               /\ pc' = "returned"
               /\ engine_calls' = 0
               /\ copied' = 0
               /\ UNCHANGED edid
          ELSE IF HeaderMismatch(edid_input_buffer)
          THEN /\ state' = ResetState(state)
               /\ stderr' = << <<"No EDID header found">> >>
               /\ prior' = prior \cup {"NoHeader"}
               /\ ret' = << -1 >>
               /\ pc' = "returned"
               /\ engine_calls' = 0
               /\ copied' = 0
               /\ UNCHANGED edid
          ELSE /\ edid' = Memcpy(edid, edid_input_buffer, l)
               /\ copied' = l
               /\ state' = RecordSize(ResetState(state), l)
               /\ stderr' = << >>
               /\ ret' = << >>
               /\ engine_calls' = 1
               /\ pc' = "engine"
               /\ UNCHANGED prior
  /\ UNCHANGED edid_input_buffer

\* state.parse_edid() runs and parse_edid_buffer returns its result
parse_edid ==
  /\ pc = "engine"
  /\ \E r \in EngineResults :
       /\ engine_ret' = << r >>
       /\ ret' = << ReturnCode(r) >>
  /\ \E b \in EngineLogBlocks, k \in MsgKinds, w \in {"", "msg"} :
       s_msgs' = [s_msgs EXCEPT ![b][k] = w]
  /\ \E n \in {0, state.num_blocks - 1} : state' = [state EXCEPT !.block_nr = n]
  /\ pc' = "returned"
  /\ prior' = prior \cup {"engine"}
  /\ UNCHANGED << edid_input_buffer, edid, options, len, stderr, engine_calls, copied >>

Next == WriteStaging \/ parse_edid_buffer \/ parse_edid

Spec == Init /\ [][Next]_vars

TypeOK ==
  /\ pc \in {"idle", "engine", "returned"}
  /\ engine_calls \in {0, 1}
  /\ prior \subseteq {"InvalidSize", "NoHeader", "engine"}

\* ---- helpers for the properties ----
DefaultOptions ==
  [o \in OptNames |-> IF o = "OptSkipSHA" THEN 0 ELSE 1]
LogsEmpty == \A b \in MsgBlocks : \A k \in MsgKinds : s_msgs[b][k] = ""
LenInRange == len >= EDID_PAGE_SIZE /\ len <= BufferSize
HeaderPresent == \A i \in 0..(HeaderLen - 1) : edid_input_buffer[i] = EdidHeader[i]
InvalidSizeDiag == << <<"Invalid EDID size", len>> >>
NoHeaderDiag == << <<"No EDID header found">> >>

\* C1 (as stated): after a call with a declared length below one page the
\* call returned -1, the engine was not invoked, and the recorded size is the
\* post-reset default and differs from the declared length.
C1_Original ==
  (pc = "returned" /\ len < EDID_PAGE_SIZE) =>
     /\ ret = << -1 >>
     /\ engine_calls = 0
     /\ state.edid_size = edid_state.edid_size
     /\ state.edid_size # len

\* C1 (amended): after a call with a declared length below one page the call
\* returned -1, the engine was not invoked, and the recorded size is the
\* post-reset default 0; it differs from the declared length exactly when the
\* declared length is not 0.
C1_LowerBound ==
  (pc = "returned" /\ len < EDID_PAGE_SIZE) =>
     /\ ret = << -1 >>
     /\ engine_calls = 0
     /\ state.edid_size = edid_state.edid_size
     /\ (state.edid_size # len <=> len # 0)

C1_Witness ==
  /\ pc = "returned"
  /\ len > 0 /\ len < EDID_PAGE_SIZE
  /\ HeaderPresent
  /\ "engine" \in prior
  /\ ret = << -1 >>

\* C2: a declared length above the capacity is rejected with -1 without any
\* copy and without the engine, whatever the header; no copy ever reads more
\* than capacity bytes; a declared length equal to the capacity with a valid
\* header reaches the engine.
C2_UpperBound ==
  /\ (pc # "idle" /\ len > BufferSize) =>
        (ret = << -1 >> /\ copied = 0 /\ engine_calls = 0)
  /\ copied <= BufferSize
  /\ (pc # "idle" /\ len = BufferSize /\ HeaderPresent) =>
        (engine_calls = 1 /\ copied = BufferSize)

C2_Witness ==
  /\ pc = "returned"
  /\ len > BufferSize
  /\ HeaderPresent
  /\ ret = << -1 >>

\* C3: when the first 8 bytes of the staging buffer are not the signature the
\* call returns -1 and the engine is not invoked, for valid and invalid
\* declared lengths alike.
C3_HeaderGate ==
  (pc # "idle" /\ ~HeaderPresent) =>
     (pc = "returned" /\ ret = << -1 >> /\ engine_calls = 0 /\ engine_ret = << >>)

C3_Witness ==
  /\ pc = "returned"
  /\ ~HeaderPresent
  /\ edid_input_buffer[0] = EdidHeader[0]
  /\ LenInRange
  /\ ret = << -1 >>
  /\ stderr = NoHeaderDiag

\* C4: whenever the engine is invoked, both message logs of every block
\* 0..EDID_MAX_BLOCKS are empty and the option flags are the fixed defaults,
\* whatever the earlier calls were.
C4_ResetIsolation ==
  pc = "engine" => (LogsEmpty /\ options = DefaultOptions)

C4_Witness ==
  /\ pc = "engine"
  /\ prior = {"InvalidSize", "NoHeader", "engine"}
  /\ LogsEmpty

\* C5: a call with a declared length in [page, capacity] and a matching
\* header invokes the engine once and returns exactly what the engine
\* returned.
C5_PassThrough ==
  (pc = "returned" /\ LenInRange /\ HeaderPresent) =>
     (engine_calls = 1 /\ engine_ret # << >> /\ ret = engine_ret)

C5_Witness ==
  /\ pc = "returned"
  /\ LenInRange /\ HeaderPresent
  /\ engine_calls = 1
  /\ engine_ret = << -2 >>
  /\ ret = << -2 >>

\* C6: when the engine is invoked the recorded size is the declared length
\* and the recorded block count is the declared length divided by the page
\* size, truncated; the block count lies in 1..EDID_MAX_BLOCKS.
C6_SizeAndBlocks ==
  pc = "engine" =>
     /\ state.edid_size = len
     /\ state.num_blocks * EDID_PAGE_SIZE <= len
     /\ len < (state.num_blocks + 1) * EDID_PAGE_SIZE
     /\ state.num_blocks \in 1..EDID_MAX_BLOCKS

C6_Witness ==
  /\ pc = "engine"
  /\ len = EDID_PAGE_SIZE * 3 + 1
  /\ state.edid_size = len
  /\ state.num_blocks = 3

\* C7: when the engine is invoked the working copy equals the staging buffer
\* at every index below the declared length, and no step of a call changes
\* the staging buffer.
C7_CopyFidelity ==
  /\ [](pc = "engine" => \A i \in Idx : i < len => edid[i] = edid_input_buffer[i])
  /\ [][pc' # "idle" => edid_input_buffer' = edid_input_buffer]_vars

C7_Witness ==
  /\ pc = "engine"
  /\ len = BufferSize
  /\ edid = edid_input_buffer
  /\ edid[BufferSize - 1] # 0

\* C8: a rejected call resets the decoder state (logs empty, flags at the
\* defaults, edid_state freshly constructed) and leaves the working copy
\* unchanged; the working copy changes only in a call whose length and header
\* checks all pass.
C8_RejectedCallFrame ==
  /\ [][(pc # "engine" /\ pc' = "returned") =>
          /\ edid' = edid
          /\ state' = edid_state
          /\ \A b \in MsgBlocks : \A k \in MsgKinds : s_msgs'[b][k] = ""
          /\ options' = DefaultOptions]_vars
  /\ [][edid' # edid =>
          /\ len' >= EDID_PAGE_SIZE /\ len' <= BufferSize
          /\ \A i \in 0..(HeaderLen - 1) : edid_input_buffer[i] = EdidHeader[i]]_vars

C8_Witness ==
  /\ pc = "returned"
  /\ engine_calls = 0
  /\ "engine" \in prior
  /\ \A i \in 0..(HeaderLen - 1) : edid[i] = EdidHeader[i]
  /\ state = edid_state
  /\ LogsEmpty

\* C9: a rejected call prints exactly one diagnostic; an out-of-range length
\* gives the invalid-size diagnostic whatever the header; the no-header
\* diagnostic appears only for a length in [page, capacity]; a call that
\* reaches the engine prints nothing.
C9_GateOrder ==
  /\ (pc = "returned" /\ engine_calls = 0) => Len(stderr) = 1
  /\ (pc = "returned" /\ ~LenInRange) => stderr = InvalidSizeDiag
  /\ (pc # "idle" /\ stderr = NoHeaderDiag) => (LenInRange /\ ~HeaderPresent)
  /\ (pc # "idle" /\ stderr = InvalidSizeDiag) => ~LenInRange
  /\ engine_calls = 1 => stderr = << >>

C9_Witness ==
  /\ pc = "returned"
  /\ ~LenInRange
  /\ ~HeaderPresent
  /\ stderr = InvalidSizeDiag

\* C10: a call that reaches the engine leaves every working-copy byte at an
\* index >= the declared length as it was before the call.
C10_TailKept ==
  [][pc' = "engine" => \A i \in Idx : i >= len' => edid'[i] = edid[i]]_vars

C10_Witness ==
  /\ pc = "engine"
  /\ len < BufferSize
  /\ \E i \in Idx : i >= len /\ edid[i] # 0 /\ edid[i] # edid_input_buffer[i]
====
